---- MODULE Spec2Model ----
\* Verification model of src/common/io.rs (rsnova): the peekable reader, the
\* exact-peek future, the read-until-separator future and the duplex composer.
EXTENDS Integers, Sequences, FiniteSets, TLC

\* ---------------------------------------------------------------- bounds
MaxData == 3        \* the underlying stream delivers at most this many bytes
MaxFaults == 2      \* not-ready or error answers the underlying stream may give
MaxPeek == 2        \* largest buffer handed to poll_peek / peek_exact
MaxRead == 2        \* largest buffer handed to a consuming read
MaxSep == 2         \* longest separator
MaxWrite == 2       \* bytes the write half accepts in the duplex model
MaxHalfFaults == 1  \* not-ready or error answers of each half of the duplex

\* the scratch array of ReadUntilSeparator::poll
ReadBufSize == 1024

Bytes == {1, 2}
ErrKinds == {"BrokenPipe", "ConnectionReset"}

Min(a, b) == IF a < b THEN a ELSE b
Max(a, b) == IF a > b THEN a ELSE b

SeqsUpTo(S, n) == UNION {[1..i -> S] : i \in 0..n}

Drop(s, n) == SubSeq(s, n + 1, Len(s))
Take(s, n) == SubSeq(s, 1, n)

Zeros(n) == [i \in 1..n |-> 0]

VARIABLES
    inner,      \* the underlying stream (PeekableReader.inner)
    peek_buf,   \* PeekableReader.peek_buf
    op,         \* the operation object: PeekExact or ReadUntilSeparator
    owner,      \* who holds the PeekableReader: "caller" or "op"
    last,       \* the last call made and what it returned
    delivered,  \* every byte the underlying stream has handed out so far
    consumed,   \* every byte consuming reads on the wrapper have returned
    total,      \* the bytes the underlying stream holds at construction
    largest,    \* the largest buffer length poll_peek has been called with
    rhalf,      \* AsyncReadWriter.r
    whalf,      \* AsyncReadWriter.w
    dlast       \* the last call on the AsyncReadWriter and its result

vars == <<inner, peek_buf, op, owner, last, delivered, consumed, total,
          largest, rhalf, whalf, dlast>>
mainVars == <<inner, peek_buf, op, owner, last, delivered, consumed, total,
              largest>>
otherVars == <<largest, rhalf, whalf, dlast>>
duplexVars == <<rhalf, whalf, dlast>>

\* ------------------------------------------------- the underlying stream
\* A stream holds the bytes it will still deliver, how many more times it may
\* answer not-ready or report an error, and whether it has reported end-of-stream.
NewStreamWith(d, f) == [data |-> d, faults |-> f, eof |-> FALSE]
NewStream(d) == NewStreamWith(d, MaxFaults)

\* One non-blocking read with a buffer of n bytes: every answer the stream may
\* give, with the stream's next state.
StreamRead(s, n) ==
    LET ready(b, t) == [tag |-> "Ready", bytes |-> b, err |-> "none", s |-> t]
    IN
    IF s.eof THEN {ready(<<>>, s)}
    ELSE
      {ready(Take(s.data, c), [s EXCEPT !.data = Drop(s.data, c)])
         : c \in 1..Min(n, Len(s.data))}
      \cup
      (IF n = 0 THEN {ready(<<>>, s)} ELSE {})
      \cup
      (IF n > 0 /\ s.data = <<>> THEN {ready(<<>>, [s EXCEPT !.eof = TRUE])} ELSE {})
      \cup
      (IF s.faults > 0
       THEN {[tag |-> "NotReady", bytes |-> <<>>, err |-> "none",
              s |-> [s EXCEPT !.faults = s.faults - 1]]}
       ELSE {})
      \cup
      (IF s.faults > 0
       THEN {[tag |-> "Err", bytes |-> <<>>, err |-> k,
              s |-> [s EXCEPT !.faults = s.faults - 1]] : k \in ErrKinds}
       ELSE {})

\* What a stream answer adds to the record of answers seen during a call.
Seen(o) ==
    IF o.tag = "Err" THEN o.err
    ELSE IF o.tag = "NotReady" THEN "nr"
    ELSE IF o.bytes = <<>> THEN "zero"
    ELSE "data"

\* ------------------------------------------------------- PeekableReader
\* A call on the wrapper returns: the answer, the bytes copied to the caller,
\* the wrapper's next state (s, pb), the stream answers seen during the call
\* (tr) and the bytes the stream handed out during the call (got).
Ret(tag, bytes, err, s, pb, tr, got) ==
    [tag |-> tag, bytes |-> bytes, err |-> err, s |-> s, pb |-> pb,
     tr |-> tr, got |-> got]

\* Faulty variant of PeekSpace: the read may fill buf.len() bytes past cur_n.
PeekSpaceWhole(pb, k) == k

\* poll_peek, the slice handed to the underlying read: &mut peek_buf[cur_n..]
\* after set_len(buf.len()).
PeekSpace(pb, k) == k - Len(pb)

\* Faulty variant of PeekGrow: the bytes read are put before the peeked ones.
PeekGrowPrepend(pb, bytes) == bytes \o pb

\* Faulty variant of PeekGrow: set_len(n), the bytes peeked before are dropped.
PeekGrowOverwrite(pb, bytes) == bytes

\* poll_peek, a successful underlying read of n bytes: set_len(cur_n + n).
PeekGrow(pb, bytes) == pb \o bytes

\* Faulty variant of PeekRestore: set_len(cur_n - 1).
PeekRestoreTruncate(pb) == Take(pb, Len(pb) - 1)

\* Faulty variant of PeekRestore: the buffer is emptied when the read fails.
PeekRestoreClear(pb) == <<>>

\* poll_peek, the underlying read failed or was not ready: set_len(cur_n).
PeekRestore(pb) == pb

\* Faulty variant of PeekCopy: the last k bytes are copied.
PeekCopyTail(pb, k) == SubSeq(pb, Len(pb) - k + 1, Len(pb))

\* poll_peek, the buffer is long enough: copy_from_slice(&peek_buf[0..buf.len()]).
PeekCopy(pb, k) == Take(pb, k)

\* poll_peek(buf) with len(buf) = k. A read that reports 0 bytes leaves the
\* buffer as it was and the loop reads again; the stream, at end-of-stream,
\* answers 0 again, so the loop never leaves: "Hang".
RECURSIVE PollPeek(_, _, _, _, _)
PollPeek(s, pb, k, tr, got) ==
    IF Len(pb) < k
    THEN UNION {
           LET tr2 == Append(tr, Seen(o)) IN
           CASE o.tag = "Err" -> {Ret("Err", <<>>, o.err, o.s, PeekRestore(pb), tr2, got)}
             [] o.tag = "NotReady" -> {Ret("NotReady", <<>>, "none", o.s, PeekRestore(pb), tr2, got)}
             [] o.tag = "Ready" /\ o.bytes = <<>> /\ o.s.eof ->
                    {Ret("Hang", <<>>, "none", o.s, PeekGrow(pb, o.bytes), tr2, got)}
             [] OTHER ->
                    PollPeek(o.s, PeekGrow(pb, o.bytes), k, tr2, got \o o.bytes)
           : o \in StreamRead(s, PeekSpace(pb, k)) }
    ELSE {Ret("Ready", PeekCopy(pb, k), "none", s, pb, tr, got)}

\* Faulty variant of ReadFromPeekBuf: n is not limited to buf.len().
ReadFromPeekBufNoClamp(s, pb, m) ==
    [tag |-> "Ready", bytes |-> pb, err |-> "none", s |-> s,
     pb |-> <<>>, tr |-> <<>>, got |-> <<>>]

\* Faulty variant of ReadFromPeekBuf: clear() in place of advance(n).
ReadFromPeekBufClear(s, pb, m) ==
    LET n == IF Len(pb) > m THEN m ELSE Len(pb)
    IN [tag |-> "Ready", bytes |-> Take(pb, n), err |-> "none", s |-> s,
        pb |-> <<>>, tr |-> <<>>, got |-> <<>>]

\* Faulty variant of ReadFromPeekBuf: the copied bytes are not removed.
ReadFromPeekBufNoAdvance(s, pb, m) ==
    LET n == IF Len(pb) > m THEN m ELSE Len(pb)
    IN [tag |-> "Ready", bytes |-> Take(pb, n), err |-> "none", s |-> s,
        pb |-> pb, tr |-> <<>>, got |-> <<>>]

\* Read::read(buf) with len(buf) = m, the peek buffer not empty: the first
\* min(len(peek_buf), m) bytes are copied out and advance(n) removes them.
ReadFromPeekBuf(s, pb, m) ==
    LET n == IF Len(pb) > m THEN m ELSE Len(pb)
    IN Ret("Ready", Take(pb, n), "none", s, Drop(pb, n), <<>>, <<>>)

\* Faulty variant of WrapperRead: the peeked bytes are not served first.
WrapperReadSkipPeeked(s, pb, m) ==
    {[tag |-> o.tag, bytes |-> o.bytes, err |-> o.err, s |-> o.s, pb |-> pb,
      tr |-> <<Seen(o)>>, got |-> o.bytes] : o \in StreamRead(s, m)}

\* Read::read(buf) with len(buf) = m.
WrapperRead(s, pb, m) ==
    IF Len(pb) = 0
    THEN {Ret(o.tag, o.bytes, o.err, o.s, pb, <<Seen(o)>>, o.bytes)
            : o \in StreamRead(s, m)}
    ELSE {ReadFromPeekBuf(s, pb, m)}

\* --------------------------------------------------------------- PeekExact
\* What a poll of an operation returns: the answer (tag, bytes, tail, err),
\* whether the returned value carries the reader (carries), the operation's
\* next state (state, buf, pos) and the wrapper's (s, pb, tr, got, used).
OpRet(tag, bytes, tl, err, carries, state, buf, pos, w, used) ==
    [tag |-> tag, bytes |-> bytes, tail |-> tl, err |-> err,
     carries |-> carries, state |-> state, buf |-> buf, pos |-> pos,
     s |-> w.s, pb |-> w.pb, tr |-> w.tr, got |-> w.got, used |-> used]

\* eof()
EofError == "UnexpectedEof"

\* buf[*pos..] filled by poll_peek with the n bytes it copied.
FillAt(buf, pos, bytes) ==
    [i \in 1..Len(buf) |->
        IF i > pos /\ i <= pos + Len(bytes) THEN bytes[i - pos] ELSE buf[i]]

\* Faulty variant of NeedsPeek: the loop runs once more with the buffer full.
NeedsPeekInclusive(pos, len) == pos <= len

\* PeekExact::poll, the loop condition: while *pos < buf.len().
NeedsPeek(pos, len) == pos < len

\* PeekExact::poll in state Reading: the while loop, then the match on err.
RECURSIVE PeekExactLoop(_, _, _, _, _, _)
PeekExactLoop(s, pb, buf, pos, tr, got) ==
    IF NeedsPeek(pos, Len(buf))
    THEN UNION {
           CASE o.tag = "NotReady" ->
                  {OpRet("NotReady", <<>>, <<>>, "none", FALSE, "Reading", buf, pos, o, <<>>)}
             [] o.tag = "Hang" ->
                  {OpRet("Hang", <<>>, <<>>, "none", FALSE, "Reading", buf, pos, o, <<>>)}
             [] o.tag = "Err" ->
                  {OpRet("Err", <<>>, <<>>, o.err, TRUE, "Empty", buf, pos, o, <<>>)}
             [] o.tag = "Ready" /\ Len(o.bytes) = 0 ->
                  {OpRet("Err", <<>>, <<>>, EofError, TRUE, "Empty", buf, pos, o, <<>>)}
             [] OTHER ->
                  PeekExactLoop(o.s, o.pb, FillAt(buf, pos, o.bytes),
                                pos + Len(o.bytes), o.tr, o.got)
           : o \in PollPeek(s, pb, Len(buf) - pos, tr, got) }
    ELSE {OpRet("Ok", buf, <<>>, "none", TRUE, "Empty", buf, pos,
                Ret("Ready", <<>>, "none", s, pb, tr, got), <<>>)}

\* ------------------------------------------------------ ReadUntilSeparator
\* twoway::find_bytes(hay, needle): the 0-based start of the first occurrence,
\* or -1 for None.
RECURSIVE FindFrom(_, _, _)
FindFrom(hay, needle, i) ==
    IF i + Len(needle) > Len(hay) THEN -1
    ELSE IF SubSeq(hay, i + 1, i + Len(needle)) = needle THEN i
    ELSE FindFrom(hay, needle, i + 1)

FindBytes(hay, needle) == FindFrom(hay, needle, 0)

\* Faulty variant of SplitAt: the cut is made before the separator.
SplitAtStart(pos, wsize) == pos

\* buf.split_off(pos + wsize): the place the buffer is cut at.
SplitAt(pos, wsize) == pos + wsize

\* Faulty variant of ZeroReadError: the error kind of the exact-peek.
ZeroReadErrorEof == "UnexpectedEof"

\* The error of a read that reports 0 bytes.
ZeroReadError == "ConnectionReset"

\* Faulty variant of ScanError: every failure is reported as connection-reset.
ScanErrorReset(e) == "ConnectionReset"

\* The error a failed underlying read makes the scan fail with.
ScanError(e) == e

\* Faulty variant of ScanAppend: the bytes read before are overwritten.
ScanAppendReplace(buf, bytes) == bytes

\* ReadUntilSeparator::poll, n > 0 bytes read: buf.put_slice(&r[0..n]).
ScanAppend(buf, bytes) == buf \o bytes

\* ReadUntilSeparator::poll in state Reading: the loop.
RECURSIVE ScanLoop(_, _, _, _, _, _, _)
ScanLoop(s, pb, sep, buf, tr, got, used) ==
    UNION {
      LET w == Ret(o.tag, o.bytes, o.err, o.s, o.pb, tr \o o.tr, got \o o.got)
          used2 == used \o o.bytes
          buf2 == ScanAppend(buf, o.bytes)
          pos == FindBytes(buf2, sep)
      IN
      CASE o.tag = "NotReady" ->
             {OpRet("NotReady", <<>>, <<>>, "none", FALSE, "Reading", buf, 0, w, used)}
        [] o.tag = "Err" ->
             {OpRet("Err", <<>>, <<>>, ScanError(o.err), FALSE, "Reading", buf, 0, w, used)}
        [] o.tag = "Ready" /\ Len(o.bytes) = 0 ->
             {OpRet("Err", <<>>, <<>>, ZeroReadError, FALSE, "Reading", buf, 0, w, used)}
        [] OTHER ->
             IF pos >= 0
             THEN {OpRet("Ok", Take(buf2, SplitAt(pos, Len(sep))),
                         Drop(buf2, SplitAt(pos, Len(sep))), "none", TRUE,
                         "Empty", <<>>, 0, w, used2)}
             ELSE ScanLoop(o.s, o.pb, sep, buf2, w.tr, w.got, used2)
      : o \in WrapperRead(s, pb, ReadBufSize) }

\* ------------------------------------------------------------ the program
Separators == SeqsUpTo(Bytes, MaxSep) \ {<<>>}

NoOp == [kind |-> "none", state |-> "Empty", buf |-> <<>>, pos |-> 0,
         sep |-> <<>>, base |-> 0, peeked |-> <<>>, resolved |-> FALSE]

\* The record of a call: which call, its size argument, the answer, the peek
\* buffer as it was before the call, the stream answers seen during the call.
Call(call, arg, tag, bytes, tl, err, tr, pre, carries) ==
    [call |-> call, arg |-> arg, tag |-> tag, bytes |-> bytes, tail |-> tl,
     err |-> err, tr |-> tr, pre |-> pre, carries |-> carries]

\* A panic aborts the program; a step that never returns keeps its thread.
Halted == last.tag \in {"Panic", "Hang"}

DuplexIdle ==
    /\ rhalf = [data |-> <<>>, faults |-> 0, eof |-> TRUE]
    /\ whalf = [written |-> <<>>, flushed |-> 0, shut |-> TRUE, faults |-> 0]
    /\ dlast = [call |-> "none", arg |-> <<>>, tag |-> "None", n |-> 0,
                bytes |-> <<>>, err |-> "none"]

Init ==
    /\ total \in SeqsUpTo(Bytes, MaxData)
    /\ inner = NewStream(total)
    /\ peek_buf = <<>>
    /\ op = NoOp
    /\ owner = "caller"
    /\ last = Call("none", 0, "None", <<>>, <<>>, "none", <<>>, <<>>, FALSE)
    /\ delivered = <<>>
    /\ consumed = <<>>
    /\ largest = 0
    /\ DuplexIdle

\* peek_exact(a, buf) / peek_exact2(r, buf) with len(buf) = n.
StartPeekExact(n) ==
    /\ ~Halted
    /\ owner = "caller"
    /\ op' = [kind |-> "peek", state |-> "Reading", buf |-> Zeros(n), pos |-> 0,
              sep |-> <<>>, base |-> Len(consumed), peeked |-> <<>>,
              resolved |-> FALSE]
    /\ owner' = "op"
    /\ last' = Call("peek_exact", n, "None", <<>>, <<>>, "none", <<>>, peek_buf, FALSE)
    /\ UNCHANGED <<inner, peek_buf, delivered, consumed, total>>

\* PeekExact::poll
PollPeekExact ==
    /\ ~Halted
    /\ op.kind = "peek"
    /\ IF op.state = "Empty"
       THEN /\ last' = Call("PeekExact::poll", Len(op.buf), "Panic", <<>>, <<>>,
                            "none", <<>>, peek_buf, FALSE)
            /\ UNCHANGED <<inner, peek_buf, op, owner, delivered, consumed, total>>
       ELSE \E o \in PeekExactLoop(inner, peek_buf, op.buf, op.pos, <<>>, <<>>) :
            /\ inner' = o.s
            /\ peek_buf' = o.pb
            /\ op' = [op EXCEPT !.state = o.state, !.buf = o.buf, !.pos = o.pos,
                                !.resolved = (op.resolved \/ o.tag \in {"Ok", "Err"})]
            /\ owner' = IF o.carries THEN "caller" ELSE owner
            /\ last' = Call("PeekExact::poll", Len(op.buf), o.tag, o.bytes, o.tail,
                            o.err, o.tr, peek_buf, o.carries)
            /\ delivered' = delivered \o o.got
            /\ UNCHANGED <<consumed, total>>

\* read_until_separator(a, separator)
StartScan(sep) ==
    /\ ~Halted
    /\ owner = "caller"
    /\ op' = [kind |-> "scan", state |-> "Reading", buf |-> <<>>, pos |-> 0,
              sep |-> sep, base |-> Len(consumed), peeked |-> peek_buf,
              resolved |-> FALSE]
    /\ owner' = "op"
    /\ last' = Call("read_until_separator", Len(sep), "None", <<>>, <<>>, "none",
                    <<>>, peek_buf, FALSE)
    /\ UNCHANGED <<inner, peek_buf, delivered, consumed, total>>

\* ReadUntilSeparator::poll
PollScan ==
    /\ ~Halted
    /\ op.kind = "scan"
    /\ IF op.state = "Empty"
       THEN /\ last' = Call("ReadUntilSeparator::poll", Len(op.sep), "Panic", <<>>,
                            <<>>, "none", <<>>, peek_buf, FALSE)
            /\ UNCHANGED <<inner, peek_buf, op, owner, delivered, consumed, total>>
       ELSE \E o \in ScanLoop(inner, peek_buf, op.sep, op.buf, <<>>, <<>>, <<>>) :
            /\ inner' = o.s
            /\ peek_buf' = o.pb
            /\ op' = [op EXCEPT !.state = o.state, !.buf = o.buf,
                                !.resolved = (op.resolved \/ o.tag \in {"Ok", "Err"})]
            /\ owner' = IF o.carries THEN "caller" ELSE owner
            /\ last' = Call("ReadUntilSeparator::poll", Len(op.sep), o.tag, o.bytes,
                            o.tail, o.err, o.tr, peek_buf, o.carries)
            /\ delivered' = delivered \o o.got
            /\ consumed' = consumed \o o.used
            /\ UNCHANGED total

\* PeekableReader::poll_peek(buf) called by the holder of the wrapper, len(buf) = k.
Peek(k) ==
    /\ ~Halted
    /\ owner = "caller"
    /\ \E o \in PollPeek(inner, peek_buf, k, <<>>, <<>>) :
         /\ inner' = o.s
         /\ peek_buf' = o.pb
         /\ last' = Call("poll_peek", k, o.tag, o.bytes, <<>>, o.err, o.tr,
                         peek_buf, FALSE)
         /\ delivered' = delivered \o o.got
    /\ UNCHANGED <<op, owner, consumed, total>>

\* PeekableReader::read(buf) called by the holder of the wrapper, len(buf) = m.
Read(m) ==
    /\ ~Halted
    /\ owner = "caller"
    /\ \E o \in WrapperRead(inner, peek_buf, m) :
         /\ inner' = o.s
         /\ peek_buf' = o.pb
         /\ last' = Call("read", m, o.tag, o.bytes, <<>>, o.err, o.tr,
                         peek_buf, FALSE)
         /\ delivered' = delivered \o o.got
         /\ consumed' = consumed \o o.bytes
    /\ UNCHANGED <<op, owner, total>>

Next ==
    \/ (\E n \in 0..MaxPeek : StartPeekExact(n)) /\ UNCHANGED otherVars
    \/ PollPeekExact /\ UNCHANGED otherVars
    \/ (\E sep \in Separators : StartScan(sep)) /\ UNCHANGED otherVars
    \/ PollScan /\ UNCHANGED otherVars
    \/ (\E k \in 0..MaxPeek : Peek(k)) /\ UNCHANGED otherVars
    \/ (\E m \in 0..MaxRead : Read(m)) /\ UNCHANGED otherVars

Spec == Init /\ [][Next]_vars

\* --------------------------------------------------------- AsyncReadWriter
\* The write half: the bytes it has accepted, how many of them it has flushed,
\* whether it was shut down, and how many more times it may answer not-ready
\* or report an error.
NewWriter == [written |-> <<>>, flushed |-> 0, shut |-> FALSE, faults |-> MaxHalfFaults]

\* What the write half may answer when it does not carry a call out.
WriterFault(w) ==
    IF w.faults > 0
    THEN {[tag |-> "NotReady", n |-> 0, err |-> "none",
           w |-> [w EXCEPT !.faults = w.faults - 1]]}
         \cup
         {[tag |-> "Err", n |-> 0, err |-> k,
           w |-> [w EXCEPT !.faults = w.faults - 1]] : k \in ErrKinds}
    ELSE {}

\* The write half's write / write_buf: it accepts a prefix of buf.
WriterWrite(w, buf) ==
    IF w.shut
    THEN {[tag |-> "Err", n |-> 0, err |-> "BrokenPipe", w |-> w]}
    ELSE {[tag |-> "Ready", n |-> c, err |-> "none",
           w |-> [w EXCEPT !.written = w.written \o Take(buf, c)]]
            : c \in (IF buf = <<>> THEN {0} ELSE 1..Len(buf))}
         \cup WriterFault(w)

\* The write half's flush.
WriterFlush(w) ==
    {[tag |-> "Ready", n |-> 0, err |-> "none",
      w |-> [w EXCEPT !.flushed = Len(w.written)]]}
    \cup WriterFault(w)

\* The write half's shutdown.
WriterShutdown(w) ==
    {[tag |-> "Ready", n |-> 0, err |-> "none",
      w |-> [w EXCEPT !.flushed = Len(w.written), !.shut = TRUE]]}
    \cup WriterFault(w)

\* Faulty variant of ForwardFlush: it answers without reaching the write half.
ForwardFlushDropped(r, w) ==
    {[tag |-> "Ready", n |-> 0, bytes |-> <<>>, err |-> "none", r |-> r, w |-> w]}

\* AsyncReadWriter::read / read_buf: self.r.read(buf), len(buf) = m.
ForwardRead(r, w, m) ==
    {[tag |-> o.tag, n |-> Len(o.bytes), bytes |-> o.bytes, err |-> o.err,
      r |-> o.s, w |-> w] : o \in StreamRead(r, m)}

\* AsyncReadWriter::write / write_buf: self.w.write(buf).
ForwardWrite(r, w, buf) ==
    {[tag |-> o.tag, n |-> o.n, bytes |-> <<>>, err |-> o.err, r |-> r, w |-> o.w]
       : o \in WriterWrite(w, buf)}

\* AsyncReadWriter::flush: self.w.flush().
ForwardFlush(r, w) ==
    {[tag |-> o.tag, n |-> o.n, bytes |-> <<>>, err |-> o.err, r |-> r, w |-> o.w]
       : o \in WriterFlush(w)}

\* AsyncReadWriter::shutdown: self.w.shutdown().
ForwardShutdown(r, w) ==
    {[tag |-> o.tag, n |-> o.n, bytes |-> <<>>, err |-> o.err, r |-> r, w |-> o.w]
       : o \in WriterShutdown(w)}

DCall(call, arg, o) ==
    [call |-> call, arg |-> arg, tag |-> o.tag, n |-> o.n, bytes |-> o.bytes,
     err |-> o.err]

MainIdle ==
    /\ total = <<>>
    /\ inner = NewStream(<<>>)
    /\ peek_buf = <<>>
    /\ op = NoOp
    /\ owner = "caller"
    /\ last = Call("none", 0, "None", <<>>, <<>>, "none", <<>>, <<>>, FALSE)
    /\ delivered = <<>>
    /\ consumed = <<>>
    /\ largest = 0

\* AsyncReadWriter::new(a, b)
DuplexInit ==
    /\ MainIdle
    /\ rhalf \in {NewStreamWith(d, MaxHalfFaults) : d \in SeqsUpTo(Bytes, MaxData)}
    /\ whalf = NewWriter
    /\ dlast = [call |-> "none", arg |-> <<>>, tag |-> "None", n |-> 0,
                bytes |-> <<>>, err |-> "none"]

DuplexRead(m) ==
    \E o \in ForwardRead(rhalf, whalf, m) :
      /\ rhalf' = o.r
      /\ whalf' = o.w
      /\ dlast' = DCall("read", Zeros(m), o)

DuplexWrite(buf) ==
    /\ Len(whalf.written) + Len(buf) <= MaxWrite
    /\ \E o \in ForwardWrite(rhalf, whalf, buf) :
         /\ rhalf' = o.r
         /\ whalf' = o.w
         /\ dlast' = DCall("write", buf, o)

DuplexFlush ==
    \E o \in ForwardFlush(rhalf, whalf) :
      /\ rhalf' = o.r
      /\ whalf' = o.w
      /\ dlast' = DCall("flush", <<>>, o)

DuplexShutdown ==
    \E o \in ForwardShutdown(rhalf, whalf) :
      /\ rhalf' = o.r
      /\ whalf' = o.w
      /\ dlast' = DCall("shutdown", <<>>, o)

DuplexNext ==
    \/ (\E m \in 0..MaxRead : DuplexRead(m)) /\ UNCHANGED mainVars
    \/ (\E buf \in SeqsUpTo(Bytes, MaxWrite) : DuplexWrite(buf)) /\ UNCHANGED mainVars
    \/ DuplexFlush /\ UNCHANGED mainVars
    \/ DuplexShutdown /\ UNCHANGED mainVars

DuplexSpec == DuplexInit /\ [][DuplexNext]_vars

\* The exact-peek future is re-polled while it is pending: the executor polls
\* a task again after each wake-up.
PollPending == op.state = "Reading" /\ PollPeekExact /\ UNCHANGED otherVars

\* The exact-peek scenario: the holder of the wrapper starts exact-peeks, polls
\* them and consumes bytes between them.
PeekNext ==
    \/ (\E n \in 0..MaxPeek : StartPeekExact(n)) /\ UNCHANGED otherVars
    \/ PollPeekExact /\ UNCHANGED otherVars
    \/ (\E m \in 0..MaxRead : Read(m)) /\ UNCHANGED otherVars

FairSpec == Init /\ [][PeekNext]_vars /\ WF_vars(PollPending)

\* The peek-buffer scenario: the holder of the wrapper peeks, exact-peeks and
\* consumes, and the largest length handed to poll_peek is kept.
PeekRequest == IF op.state = "Reading" /\ NeedsPeek(op.pos, Len(op.buf))
               THEN Len(op.buf) - op.pos
               ELSE 0

BufNext ==
    \/ (\E n \in 0..MaxPeek : StartPeekExact(n)) /\ UNCHANGED otherVars
    \/ PollPeekExact /\ largest' = Max(largest, PeekRequest) /\ UNCHANGED duplexVars
    \/ (\E k \in 0..MaxPeek : Peek(k) /\ largest' = Max(largest, k))
         /\ UNCHANGED duplexVars
    \/ (\E m \in 0..MaxRead : Read(m)) /\ UNCHANGED otherVars

BufSpec == Init /\ [][BufNext]_vars

\* ------------------------------------------------------------- properties
PeekPoll == "PeekExact::poll"
ScanPoll == "ReadUntilSeparator::poll"

\* The bytes of the logical stream from position p on, n of them (0 stands
\* for a byte the stream never delivers).
StreamAt(p, n) == [i \in 1..n |-> IF p + i <= Len(total) THEN total[p + i] ELSE 0]

\* The 0-based start of the leftmost occurrence of sep in s (-1: none).
Occurs(s, sep, i) == i + Len(sep) <= Len(s) /\ SubSeq(s, i + 1, i + Len(sep)) = sep
Leftmost(s, sep) ==
    IF \E i \in 0..Len(s) : Occurs(s, sep, i)
    THEN CHOOSE i \in 0..Len(s) :
           Occurs(s, sep, i) /\ \A j \in 0..(i - 1) : ~Occurs(s, sep, j)
    ELSE -1

IsErrKind(x) == x \in ErrKinds

\* C1: peeking k >= 1 bytes returns the k bytes at the logical position and
\* leaves the position alone, so a repeated peek of k bytes returns the same
\* bytes; a consuming read of m <= k bytes right after it returns the first m
\* of them, removes them from the peek buffer and moves the position by m.
C1_Step ==
    /\ (last'.call = "poll_peek" /\ last'.tag = "Ready" /\ last'.arg >= 1)
         => /\ last'.bytes = StreamAt(Len(consumed'), last'.arg)
            /\ consumed' = consumed
    /\ consumed' = Take(total, Len(consumed'))
    /\ (last.call = "poll_peek" /\ last.tag = "Ready" /\ last.arg >= 1)
         => /\ (last'.call = "poll_peek" /\ last'.arg = last.arg)
                 => /\ last'.tag = "Ready"
                    /\ last'.bytes = last.bytes
            /\ (last'.call = "read" /\ last'.arg <= last.arg)
                 => /\ last'.tag = "Ready"
                    /\ last'.bytes = Take(last.bytes, last'.arg)
                    /\ Len(consumed') = Len(consumed) + last'.arg
                    /\ peek_buf' = Drop(peek_buf, last'.arg)
C1_PeekNonDestructive == [][C1_Step]_vars

\* A consuming read of one byte served from a two-byte peek buffer, past
\* position 0.
C1_Witness ==
    /\ last.call = "read" /\ last.tag = "Ready" /\ last.arg = 1
    /\ Len(last.pre) = 2 /\ peek_buf = Drop(last.pre, 1)
    /\ Len(consumed) >= 2

\* C2: an exact-peek of N > 0 bytes on a stream that still delivers at least N
\* bytes resolves, unless the stream reports an I/O error, with success, and a
\* successful exact-peek returns the N bytes at the logical position.
C2_Pending(n) ==
    /\ op.kind = "peek" /\ op.state = "Reading" /\ owner = "op"
    /\ Len(op.buf) = n
    /\ Len(total) - Len(consumed) >= n
C2_Done(n) ==
    /\ last.call = PeekPoll
    /\ \/ last.tag = "Ok" /\ last.bytes = StreamAt(op.base, n)
       \/ last.tag = "Err" /\ IsErrKind(last.err) /\ last.tr # <<>>
          /\ last.tr[Len(last.tr)] = last.err
C2_Safe ==
    (last.call = PeekPoll /\ last.tag = "Ok" /\ last.arg > 0)
      => /\ Len(last.bytes) = last.arg
         /\ last.bytes = StreamAt(Len(consumed), last.arg)
         /\ op.base = Len(consumed)
C2_ExactPeekComplete ==
    /\ []C2_Safe
    /\ \A n \in 1..MaxPeek : C2_Pending(n) ~> C2_Done(n)

\* An exact-peek of two bytes completed by a poll that found one byte already
\* in the peek buffer and read the other, the stream having answered not-ready
\* or an error before.
C2_Witness ==
    /\ last.call = PeekPoll /\ last.tag = "Ok" /\ last.arg = 2
    /\ last.tr = <<"data">> /\ Len(last.pre) = 1
    /\ inner.faults < MaxFaults

\* C3: an exact-peek whose stream reports a 0-byte read before the buffer is
\* full resolves with the unexpected-end-of-stream error.
C3_EarlyEof ==
    (last.call = PeekPoll /\ \E i \in 1..Len(last.tr) : last.tr[i] = "zero")
      => last.tag = "Err" /\ last.err = EofError

\* C4: a successful scan returns as head the input up to and including the
\* leftmost occurrence of the separator, and as tail the rest of what it read.
C4_SplitCorrect ==
    (last.call = ScanPoll /\ last.tag = "Ok")
      => LET input == Drop(total, op.base)
             pos == Leftmost(input, op.sep)
             w == Len(op.sep)
         IN /\ pos >= 0
            /\ last.bytes = Take(input, pos + w)
            /\ last.bytes \o last.tail = Drop(consumed, op.base)
            /\ last.tail = SubSeq(input, pos + w + 1, Len(consumed) - op.base)

\* A two-byte separator found across two reads, with one byte read beyond it.
C4_Witness ==
    /\ last.call = ScanPoll /\ last.tag = "Ok"
    /\ Len(op.sep) = 2 /\ last.bytes = op.sep /\ Len(last.tail) = 1
    /\ last.tr = <<"data", "data">>

\* C5: a scan whose stream reports a 0-byte read fails with connection-reset
\* and returns neither head nor tail.
C5_NotFoundBeforeEof ==
    (last.call = ScanPoll /\ \E i \in 1..Len(last.tr) : last.tr[i] = "zero")
      => /\ last.tag = "Err" /\ last.err = "ConnectionReset"
         /\ last.bytes = <<>> /\ last.tail = <<>>

\* The stream ended after the scan had accumulated two bytes.
C5_Witness ==
    /\ last.call = ScanPoll /\ last.tag = "Err"
    /\ last.tr = <<"data", "data", "zero">>
    /\ Len(op.buf) = 2

\* C6: a poll of an operation that has resolved panics without reading.
C6_SingleUse ==
    [][(op.resolved /\ (PollPeekExact \/ PollScan))
         => last'.tag = "Panic" /\ last'.tr = <<>>]_vars

\* C7: a failed exact-peek hands the wrapper back with every byte the stream
\* delivered still in the peek buffer, and a consuming read on it then returns
\* those bytes from the head.
C7_Failed == last.call = PeekPoll /\ last.tag = "Err"
C7_Step ==
    /\ C7_Failed'
         => /\ last'.carries /\ owner' = "caller"
            /\ consumed' \o peek_buf' = delivered'
            /\ peek_buf' = StreamAt(Len(consumed'), Len(peek_buf'))
    /\ (C7_Failed /\ last'.call = "read" /\ peek_buf # <<>>)
         => /\ last'.tag = "Ready"
            /\ last'.bytes = Take(peek_buf, Min(last'.arg, Len(peek_buf)))
            /\ peek_buf' = Drop(peek_buf, Len(last'.bytes))
C8_Verbatim ==
    (last.call \in {PeekPoll, ScanPoll})
      => \A i \in 1..Len(last.tr) :
           IsErrKind(last.tr[i])
             => i = Len(last.tr) /\ last.tag = "Err" /\ last.err = last.tr[i]

\* A scan that fails with the broken-pipe error its stream reported after data.
C8_Witness ==
    /\ last.call = ScanPoll /\ last.tag = "Err" /\ last.err = "BrokenPipe"
    /\ last.tr = <<"data", "BrokenPipe">>

\* C9: a read through the composer is the read half's read and leaves the
\* write half as it was; a write, flush or shutdown through it is the write
\* half's and leaves the read half as it was; the answer is the half's.
C9_Step ==
    /\ (dlast'.call = "read")
         => /\ whalf' = whalf
            /\ \E o \in StreamRead(rhalf, Len(dlast'.arg)) :
                 /\ rhalf' = o.s
                 /\ dlast'.tag = o.tag /\ dlast'.bytes = o.bytes /\ dlast'.err = o.err
            /\ dlast'.tag = "Ready" => rhalf.data = dlast'.bytes \o rhalf'.data
    /\ (dlast'.call = "write")
         => /\ rhalf' = rhalf
            /\ \E o \in WriterWrite(whalf, dlast'.arg) :
                 /\ whalf' = o.w
                 /\ dlast'.tag = o.tag /\ dlast'.n = o.n /\ dlast'.err = o.err
            /\ dlast'.tag = "Ready"
                 => whalf'.written = whalf.written \o Take(dlast'.arg, dlast'.n)
    /\ (dlast'.call = "flush")
         => /\ rhalf' = rhalf
            /\ dlast'.tag = "Ready" => whalf'.flushed = Len(whalf'.written)
            /\ whalf'.written = whalf.written
    /\ (dlast'.call = "shutdown")
         => /\ rhalf' = rhalf
            /\ dlast'.tag = "Ready" => whalf'.shut
            /\ whalf'.written = whalf.written
C9_DuplexForwarding == [][C9_Step]_vars

\* A flush through the composer, after reads took the read half to its
\* end-of-stream and a write of one byte was accepted: the byte is flushed.
C9_Witness ==
    /\ dlast.call = "flush" /\ dlast.tag = "Ready"
    /\ Len(whalf.written) = 1 /\ whalf.flushed = 1
    /\ rhalf.eof /\ rhalf.faults = MaxHalfFaults

\* C10: every failed poll returns the stream to the caller with the error.
C10_FailureCarriesStream ==
    (last.call \in {PeekPoll, ScanPoll} /\ last.tag = "Err")
      => last.carries /\ owner = "caller"

IsPrefix(a, b) == Len(a) <= Len(b) /\ Take(b, Len(a)) = a
IsSuffix(a, b) == Len(a) <= Len(b) /\ Drop(b, Len(b) - Len(a)) = a
HasSeen(x) == \E i \in 1..Len(last.tr) : last.tr[i] = x
PeekCalls == {"poll_peek", PeekPoll}

\* C11: a poll_peek whose stream reports a 0-byte read before the buffer is
\* full returns, with a count below len(buf).
C11_PeekReturnsAtEof ==
    (last.call = "poll_peek" /\ HasSeen("zero"))
      => last.tag = "Ready" /\ Len(last.bytes) < last.arg

\* C12: a peek or exact-peek step that ends not-ready keeps the bytes the
\* stream delivered during it at the tail of the peek buffer and keeps the
\* exact-peek pending; and whatever not-ready answers came before it, a peek
\* that completes returns the bytes at the logical position.
C12_SuspensionKeepsProgress ==
    /\ (last.call \in PeekCalls /\ last.tag = "NotReady")
         => /\ IsPrefix(last.pre, peek_buf)
            /\ consumed \o peek_buf = delivered
            /\ peek_buf = StreamAt(Len(consumed), Len(peek_buf))
            /\ HasSeen("data") => Len(peek_buf) > Len(last.pre)
            /\ last.call = PeekPoll
                 => op.state = "Reading" /\ owner = "op" /\ ~last.carries
    /\ (last.call = "poll_peek" /\ last.tag = "Ready")
         => last.bytes = StreamAt(Len(consumed), last.arg)
    /\ (last.call = PeekPoll /\ last.tag = "Ok")
         => last.bytes = StreamAt(Len(consumed), last.arg)

\* An exact-peek step that ended not-ready after it had read one byte, which
\* is in the peek buffer.
C12_Witness ==
    /\ last.call = PeekPoll /\ last.tag = "NotReady"
    /\ last.tr = <<"data", "nr">> /\ last.pre = <<>> /\ Len(peek_buf) = 1
    /\ Len(total) = MaxData

\* C13: a peek call leaves the peek buffer as it was or longer by bytes of the
\* stream at its tail, whatever its answer; a consuming read leaves a suffix
\* of it, the bytes removed from the head being the bytes it returned;
\* creating an operation leaves it alone.
C13_BufferMutation ==
    /\ last.call \in PeekCalls
         => /\ IsPrefix(last.pre, peek_buf)
            /\ peek_buf = StreamAt(Len(consumed), Len(peek_buf))
    /\ last.call = "read"
         => /\ IsSuffix(peek_buf, last.pre)
            /\ last.pre # <<>> => last.pre = last.bytes \o peek_buf
    /\ last.call = ScanPoll => IsSuffix(peek_buf, last.pre)
    /\ last.call \in {"peek_exact", "read_until_separator"} => peek_buf = last.pre

\* A peek that ended in an error after it had added a byte to the peek buffer,
\* past position 0.
C13_Witness ==
    /\ last.call = "poll_peek" /\ last.tag = "Err"
    /\ last.pre = <<>> /\ Len(peek_buf) = 1 /\ Len(last.tr) = 2
    /\ consumed # <<>>

\* C14: the peek buffer is never longer than the largest buffer handed to
\* poll_peek so far.
C14_BufferBounded == Len(peek_buf) <= largest

\* The peek buffer is as long as the largest request, after consuming reads.
C14_Witness ==
    /\ Len(peek_buf) = largest /\ largest = MaxPeek
    /\ consumed # <<>> /\ last.call = "poll_peek"

\* C15: a consuming read with a non-empty peek buffer returns its first
\* min(p, L) bytes, removes them and reads nothing from the stream; with an
\* empty peek buffer it returns the answer of one read of the stream and the
\* peek buffer stays empty.
C15_ConsumingRead ==
    last.call = "read"
      => IF last.pre # <<>>
         THEN /\ last.tag = "Ready"
              /\ Len(last.bytes) = Min(Len(last.pre), last.arg)
              /\ last.bytes = Take(last.pre, Len(last.bytes))
              /\ peek_buf = Drop(last.pre, Len(last.bytes))
              /\ last.tr = <<>>
         ELSE /\ peek_buf = <<>>
              /\ Len(last.tr) = 1
              /\ last.tag = "Ready" <=> last.tr[1] \in {"data", "zero"}
              /\ last.tag = "NotReady" <=> last.tr[1] = "nr"
              /\ last.tag = "Err" <=> IsErrKind(last.tr[1])
              /\ last.tag = "Err" => last.err = last.tr[1]
              /\ last.tr[1] = "data" <=> last.bytes # <<>>
              /\ last.bytes = StreamAt(Len(consumed) - Len(last.bytes), Len(last.bytes))
              /\ consumed = delivered

\* A read of one byte served from a peek buffer of two.
C15_Witness ==
    /\ last.call = "read" /\ last.arg = 1 /\ Len(last.pre) = 2
    /\ Len(peek_buf) = 1 /\ last.tag = "Ready"

\* C16: a peek whose buffer is no longer than the peek buffer returns ready
\* with the first len(buf) bytes of it, reads nothing and changes nothing.
C16_FastPath ==
    (last.call = "poll_peek" /\ Len(last.pre) >= last.arg)
      => /\ last.tag = "Ready"
         /\ last.bytes = Take(last.pre, last.arg)
         /\ last.tr = <<>>
         /\ peek_buf = last.pre
         /\ consumed \o peek_buf = delivered

\* A peek of one byte served from a peek buffer of two different bytes.
C16_Witness ==
    /\ last.call = "poll_peek" /\ last.arg = 1 /\ Len(last.pre) = 2
    /\ last.pre[1] # last.pre[2] /\ last.tag = "Ready"

\* C17: while a scan is pending its buffer holds, in order, the bytes it has
\* consumed from the stream, none of them completing the separator; a step
\* whose first read is answered not-ready by the stream changes neither the
\* buffer nor the bytes of the stream; on success head and tail together are
\* the bytes consumed, and the step read nothing after the data that
\* completed the separator.
C17_Step ==
    /\ (op'.kind = "scan" /\ op'.state = "Reading")
         => /\ op'.buf = Drop(consumed', op'.base)
            /\ Leftmost(op'.buf, op'.sep) = -1
    /\ (last'.call = ScanPoll /\ last'.tr = <<"nr">> /\ peek_buf = <<>>)
         => /\ op'.buf = op.buf
            /\ inner'.data = inner.data
            /\ peek_buf' = peek_buf
            /\ consumed' = consumed /\ delivered' = delivered
    /\ (last'.call = ScanPoll /\ last'.tag = "Ok")
         => /\ last'.bytes \o last'.tail = Drop(consumed', op'.base)
            /\ IsPrefix(op.buf, last'.bytes \o last'.tail)
            /\ Len(op.buf) < Len(last'.bytes)
            /\ \A i \in 1..Len(last'.tr) : last'.tr[i] = "data"
            /\ consumed' \o peek_buf' = delivered'
C17_ScanAccumulates == [][C17_Step]_vars

\* A scan that succeeds in a later step than the one that read its first byte.
C17_Witness ==
    /\ last.call = ScanPoll /\ last.tag = "Ok"
    /\ Len(last.bytes) = 2 /\ Len(last.tail) = 1
    /\ last.tr = <<"data">> /\ last.pre = <<>>
    /\ inner.faults < MaxFaults

\* The heads a scan for sep returns on a stream that delivers input, read
\* directly with nothing peeked.
RefHeads(input, sep) ==
    {o.bytes : o \in {x \in ScanLoop(NewStream(input), <<>>, sep, <<>>, <<>>, <<>>, <<>>)
                        : x.tag = "Ok"}}

\* C18: a scan on a wrapper that holds peeked bytes replays them first: what
\* it returns starts with them, its head is the head of a scan of the same
\* input with nothing peeked, and head and tail together are a prefix of the
\* input.
C18_PeekThenFrame ==
    (last.call = ScanPoll /\ last.tag = "Ok" /\ op.peeked # <<>>)
      => LET input == Drop(total, op.base)
             all == last.bytes \o last.tail
         IN /\ IsPrefix(all, input)
            /\ IsPrefix(op.peeked, all) \/ IsPrefix(all, op.peeked)
            /\ IsPrefix(last.bytes, op.peeked) \/ IsPrefix(op.peeked, all)
            /\ RefHeads(input, op.sep) = {last.bytes}

\* A scan from position 0 on a wrapper holding two peeked bytes, whose
\* separator ends in the byte read after them.
C18_Witness ==
    /\ last.call = ScanPoll /\ last.tag = "Ok"
    /\ Len(op.peeked) = 2 /\ op.base = 0
    /\ Len(last.bytes) = 3 /\ Len(op.sep) = 2

\* C19: a poll of a pending exact-peek with an empty buffer succeeds, reads
\* nothing and leaves the peek buffer as it was.
C19_ZeroLength ==
    (last.call = PeekPoll /\ last.arg = 0 /\ last.tag # "Panic")
      => /\ last.tag = "Ok" /\ last.bytes = <<>>
         /\ last.tr = <<>>
         /\ peek_buf = last.pre
         /\ last.carries /\ owner = "caller"
         /\ op.state = "Empty"

\* A zero-length exact-peek that succeeded on a stream at its end-of-stream.
C19_Witness ==
    /\ last.call = PeekPoll /\ last.arg = 0 /\ last.tag = "Ok"
    /\ inner.eof /\ peek_buf = <<>>

\* C20: the bytes consuming reads have returned, followed by the peek buffer,
\* are the bytes the stream has delivered, which are the first bytes it held.
C20_Conservation ==
    /\ consumed \o peek_buf = delivered
    /\ IsPrefix(delivered, total)
    /\ inner.data = Drop(total, Len(delivered))

\* Bytes consumed, a byte still peeked and a byte not yet delivered, after an
\* exact-peek that ended in an error.
C20_Witness ==
    /\ Len(consumed) = 1 /\ Len(peek_buf) = 1 /\ Len(inner.data) = 1
    /\ last.call = PeekPoll /\ last.tag = "Err"

====
